---- MODULE Spec2Model ----
(***************************************************************************)
(* HttpMethodController: the per-request dispatch pipeline                 *)
(*   lookup by method -> authentication -> Validation.check ->             *)
(*   customValidationFunc -> controller[condition.func]                    *)
(* modelled one step per synchronous run of the static handler between two *)
(* awaits.  The injected functions (authentication function, validators,   *)
(* custom validator, bound handler) are the environment: each invocation   *)
(* either throws synchronously, or returns a promise that later resolves   *)
(* with any value of its result type, or rejects.                          *)
(***************************************************************************)
EXTENDS Integers, Sequences, FiniteSets, TLC

VARIABLES authenticationFunc, conditions, nSetMethod, dispatch

vars == <<authenticationFunc, conditions, nSetMethod, dispatch>>

(* ------------------------------ bounds --------------------------------- *)

\* number of setMethod calls explored over all controllers
MaxSetMethod == 2

(* ------------------------------ values --------------------------------- *)

\* JavaScript undefined, for optional object-valued properties
Undefined == [undefined |-> TRUE]

Controllers == {"c1", "c2"}

Dispatches == {"d1"}

HttpMethod == {"GET", "POST"}

badRequestResponse == [statusCode |-> 400, body |-> "Bad Request"]

unauthorizeErrorResponse == [statusCode |-> 401, body |-> "Unauthorize"]

internalServerErrorResponse == [statusCode |-> 500, body |-> "Internal Server Error"]

\* APIGatewayProxyEvent, the fields the handler reads; API Gateway gives null
\* for an absent body, path or query
Events ==
    { [httpMethod |-> "GET", headers |-> "h1", pathParameters |-> "p1",
       body |-> "null", queryStringParameters |-> "q1"],
      [httpMethod |-> "POST", headers |-> "h2", pathParameters |-> "null",
       body |-> "b2", queryStringParameters |-> "null"] }

ValidatorKeys == {"bodyValidator", "paramValidator", "queryValidator", "headerValidator"}

\* IValidation: every validator is optional
IValidation == UNION { [K -> {"validator"}] : K \in { {}, ValidatorKeys } }

\* Condition
Condition ==
    { [isAuthentication |-> a, validation |-> v, func |-> "index", customValidationFunc |-> cv] :
        a \in BOOLEAN, v \in IValidation, cv \in {Undefined, [fn |-> "customValidation"]} }

UserInfos == { [userId |-> "u1"] }

\* AuthenticationFunctionResult<E>: userInfo is optional
AuthenticationFunctionResult ==
    { [error401 |-> e4, error500 |-> e5] : e4 \in BOOLEAN, e5 \in BOOLEAN }
    \cup { [userInfo |-> u, error401 |-> e4, error500 |-> e5] :
            u \in UserInfos, e4 \in BOOLEAN, e5 \in BOOLEAN }

\* responses a bound handler or a custom validator may build
APIGatewayProxyResult ==
    { [statusCode |-> 200, body |-> "ok"], [statusCode |-> 403, body |-> "Forbidden"] }

\* CustomValidationFunctionResult: errorResponse is optional
CustomValidationFunctionResult ==
    { [validationResult |-> v] : v \in BOOLEAN }
    \cup { [validationResult |-> v, errorResponse |-> r] :
            v \in BOOLEAN, r \in APIGatewayProxyResult }

\* how the promise returned by an injected function settles
Settled(T) == { [kind |-> "resolve", value |-> t] : t \in T } \cup { [kind |-> "reject"] }

(* --------------------------- the dispatch ------------------------------ *)

\* one call of handler(event) that has not started.  authFunc is the value the
\* static slot held, and methods the methods the controller had bound, when
\* handler(event) was called; calls is the list of the injected functions this
\* call invoked, each with its argument and outcome.
Idle ==
    [pc |-> "idle", controller |-> "none", event |-> Undefined, authFunc |-> Undefined,
     methods |-> {}, condition |-> Undefined, authResult |-> Undefined, calls |-> <<>>,
     response |-> Undefined]

Pending == [kind |-> "pending"]

Throws == [kind |-> "throw"]

\* the promise of handler(event) resolves with resp
Resolved(s, resp) == [s EXCEPT !.pc = "resolved", !.response = resp]

\* the promise of handler(event) rejects: an exception left the async function
Rejected(s) == [s EXCEPT !.pc = "rejected"]

\* fn(arg) is called: it throws, or returns a promise the caller awaits at pc next
Invoke(s, fn, arg, throws, next) ==
    IF throws
    THEN Rejected([s EXCEPT !.calls = Append(@, [fn |-> fn, arg |-> arg, outcome |-> Throws])])
    ELSE [s EXCEPT !.calls = Append(@, [fn |-> fn, arg |-> arg, outcome |-> Pending]),
                   !.pc = next]

\* the promise returned by the last call settles
Settle(s, settled) == [s EXCEPT !.calls[Len(s.calls)].outcome = settled]

\* auth with a missing authentication function taken for "no authentication"
auth_UnconfiguredSkips(s, throws) ==
    IF s.condition.isAuthentication /\ authenticationFunc # Undefined
    THEN Invoke(s, "authenticationFunc", s.event, throws, "awaitAuth")
    ELSE [s EXCEPT !.pc = "awaitAuth",
                   !.authResult = [error401 |-> FALSE, error500 |-> FALSE]]

\* auth that does not look at condition.isAuthentication
auth_AlwaysAuthenticates(s, throws) ==
    IF authenticationFunc = Undefined
    THEN [s EXCEPT !.pc = "awaitAuth",
                   !.authResult = [error401 |-> FALSE, error500 |-> TRUE]]
    ELSE Invoke(s, "authenticationFunc", s.event, throws, "awaitAuth")

\* auth(event, condition) up to its await
auth(s, throws) ==
    IF s.condition.isAuthentication
    THEN IF authenticationFunc = Undefined
         THEN [s EXCEPT !.pc = "awaitAuth",
                        !.authResult = [error401 |-> FALSE, error500 |-> TRUE]]
         ELSE Invoke(s, "authenticationFunc", s.event, throws, "awaitAuth")
    ELSE [s EXCEPT !.pc = "awaitAuth",
                   !.authResult = [error401 |-> FALSE, error500 |-> FALSE]]

\* the catch of auth answering with both error flags
authAwait_CatchSetsBoth(settled) ==
    IF settled.kind = "reject"
    THEN [error401 |-> TRUE, error500 |-> TRUE]
    ELSE settled.value

\* await authenticationFunc(event).catch(...)
authAwait(settled) ==
    IF settled.kind = "reject"
    THEN [error401 |-> FALSE, error500 |-> TRUE]
    ELSE settled.value

\* handler answering an unbound method with the internal error response
handlerStart_UnboundInternalError(s, throws) ==
    IF s.event.httpMethod \notin DOMAIN conditions[s.controller]
    THEN Resolved(s, internalServerErrorResponse)
    ELSE auth([s EXCEPT !.condition = conditions[s.controller][s.event.httpMethod]], throws)

\* handler: from its first line to the await of auth
handlerStart(s, throws) ==
    IF s.event.httpMethod \notin DOMAIN conditions[s.controller]
    THEN Resolved(s, badRequestResponse)
    ELSE auth([s EXCEPT !.condition = conditions[s.controller][s.event.httpMethod]], throws)

\* handler testing error500 before error401
afterAuth_500Before401(s) ==
    IF s.authResult.error500
    THEN Resolved(s, internalServerErrorResponse)
    ELSE IF s.authResult.error401
    THEN Resolved(s, unauthorizeErrorResponse)
    ELSE Invoke(s, "Validation.check",
                [validation |-> s.condition.validation, headers |-> s.event.headers,
                 pathParameters |-> s.event.pathParameters, body |-> s.event.body,
                 queryParameters |-> s.event.queryStringParameters],
                FALSE, "awaitValidation")

\* handler without the error401 test
afterAuth_No401(s) ==
    IF s.authResult.error500
    THEN Resolved(s, internalServerErrorResponse)
    ELSE Invoke(s, "Validation.check",
                [validation |-> s.condition.validation, headers |-> s.event.headers,
                 pathParameters |-> s.event.pathParameters, body |-> s.event.body,
                 queryParameters |-> s.event.queryStringParameters],
                FALSE, "awaitValidation")

\* handler: from the result of auth to the await of Validation.check
afterAuth(s) ==
    IF s.authResult.error401
    THEN Resolved(s, unauthorizeErrorResponse)
    ELSE IF s.authResult.error500
    THEN Resolved(s, internalServerErrorResponse)
    ELSE Invoke(s, "Validation.check",
                [validation |-> s.condition.validation, headers |-> s.event.headers,
                 pathParameters |-> s.event.pathParameters, body |-> s.event.body,
                 queryParameters |-> s.event.queryStringParameters],
                FALSE, "awaitValidation")

\* Validation.check: verdict[k] is what validator k says of its field
ValidationCheck(validation, verdict) == \A k \in DOMAIN validation : verdict[k]

\* the bound function called after defaulting a null query in the event itself
callFunc_DefaultsInPlace(s, throws) ==
    LET e == [s.event EXCEPT !.queryStringParameters = IF @ = "null" THEN "{}" ELSE @]
    IN  Invoke([s EXCEPT !.event = e], s.condition.func,
               [headers |-> e.headers, pathParameters |-> e.pathParameters,
                body |-> e.body, queryParameters |-> e.queryStringParameters,
                userInfo |-> IF "userInfo" \in DOMAIN s.authResult
                             THEN s.authResult.userInfo ELSE Undefined],
               throws, "awaitFunc")

\* the bound function called without the authenticated user
callFunc_NoUserInfo(s, throws) ==
    Invoke(s, s.condition.func,
           [headers |-> s.event.headers, pathParameters |-> s.event.pathParameters,
            body |-> s.event.body, queryParameters |-> s.event.queryStringParameters,
            userInfo |-> Undefined],
           throws, "awaitFunc")

\* the call of the bound function controller[condition.func]
callFunc(s, throws) ==
    Invoke(s, s.condition.func,
           [headers |-> s.event.headers, pathParameters |-> s.event.pathParameters,
            body |-> s.event.body, queryParameters |-> s.event.queryStringParameters,
            userInfo |-> IF "userInfo" \in DOMAIN s.authResult
                         THEN s.authResult.userInfo ELSE Undefined],
           throws, "awaitFunc")

\* handler giving the custom validator the authenticated user too
afterValidation_CustomGetsUserInfo(s, validationResult, throws) ==
    IF ~validationResult
    THEN Resolved(s, badRequestResponse)
    ELSE IF s.condition.customValidationFunc # Undefined
    THEN Invoke(s, "customValidationFunc",
                [body |-> s.event.body, headers |-> s.event.headers,
                 pathParameters |-> s.event.pathParameters,
                 queryParameters |-> s.event.queryStringParameters,
                 userInfo |-> IF "userInfo" \in DOMAIN s.authResult
                              THEN s.authResult.userInfo ELSE Undefined],
                throws, "awaitCustom")
    ELSE callFunc(s, throws)

\* handler calling the bound function without the custom validator
afterValidation_SkipsCustom(s, validationResult, throws) ==
    IF ~validationResult
    THEN Resolved(s, badRequestResponse)
    ELSE callFunc(s, throws)

\* handler that does not test the result of Validation.check
afterValidation_IgnoresResult(s, validationResult, throws) ==
    IF s.condition.customValidationFunc # Undefined
    THEN Invoke(s, "customValidationFunc",
                [body |-> s.event.body, headers |-> s.event.headers,
                 pathParameters |-> s.event.pathParameters,
                 queryParameters |-> s.event.queryStringParameters],
                throws, "awaitCustom")
    ELSE callFunc(s, throws)

\* handler: from the result of Validation.check to the next await
afterValidation(s, validationResult, throws) ==
    IF ~validationResult
    THEN Resolved(s, badRequestResponse)
    ELSE IF s.condition.customValidationFunc # Undefined
    THEN Invoke(s, "customValidationFunc",
                [body |-> s.event.body, headers |-> s.event.headers,
                 pathParameters |-> s.event.pathParameters,
                 queryParameters |-> s.event.queryStringParameters],
                throws, "awaitCustom")
    ELSE callFunc(s, throws)

\* handler testing validationResult before errorResponse
afterCustom_ResultBeforeOverride(s, customValidationResult, throws) ==
    IF ~customValidationResult.validationResult
    THEN Resolved(s, badRequestResponse)
    ELSE IF "errorResponse" \in DOMAIN customValidationResult
    THEN Resolved(s, customValidationResult.errorResponse)
    ELSE callFunc(s, throws)

\* handler that does not test validationResult
afterCustom_IgnoresResult(s, customValidationResult, throws) ==
    IF "errorResponse" \in DOMAIN customValidationResult
    THEN Resolved(s, customValidationResult.errorResponse)
    ELSE callFunc(s, throws)

\* handler: from the result of customValidationFunc to the call of the bound function
afterCustom(s, customValidationResult, throws) ==
    IF "errorResponse" \in DOMAIN customValidationResult
    THEN Resolved(s, customValidationResult.errorResponse)
    ELSE IF ~customValidationResult.validationResult
    THEN Resolved(s, badRequestResponse)
    ELSE callFunc(s, throws)

\* await condition.customValidationFunc(...): a rejection is thrown at the await
customAwait(s, settled, throws) ==
    IF settled.kind = "reject"
    THEN Rejected(s)
    ELSE afterCustom(s, settled.value, throws)

\* the bound function called without the .catch
funcCatch_NoCatch(s, settled) ==
    IF settled.kind = "reject"
    THEN Rejected(s)
    ELSE Resolved(s, settled.value)

\* controller[condition.func](...).catch(() => internalServerErrorResponse)
funcCatch(s, settled) ==
    IF settled.kind = "reject"
    THEN Resolved(s, internalServerErrorResponse)
    ELSE Resolved(s, settled.value)

(* ------------------------------ actions -------------------------------- *)

\* handler answering 500 while another call of handler is running
Handler_BusyIs500(d, c, e) ==
    /\ dispatch[d].pc = "idle"
    /\ \E throws \in BOOLEAN :
         LET s == [Idle EXCEPT !.controller = c, !.event = e,
                               !.authFunc = authenticationFunc,
                               !.methods = DOMAIN conditions[c]]
             busy == \E o \in DOMAIN dispatch \ {d} :
                        dispatch[o].pc \notin {"idle", "resolved", "rejected"}
         IN  dispatch' = [dispatch EXCEPT ![d] =
                IF busy THEN Resolved(s, internalServerErrorResponse)
                ELSE handlerStart(s, throws)]
    /\ UNCHANGED <<authenticationFunc, conditions, nSetMethod>>

\* controller.handler(event) is called
Handler(d, c, e) ==
    /\ dispatch[d].pc = "idle"
    /\ \E throws \in BOOLEAN :
         dispatch' = [dispatch EXCEPT ![d] =
            handlerStart([Idle EXCEPT !.controller = c, !.event = e,
                                      !.authFunc = authenticationFunc,
                                      !.methods = DOMAIN conditions[c]], throws)]
    /\ UNCHANGED <<authenticationFunc, conditions, nSetMethod>>

\* the result of auth kept where every dispatch sees it: a dispatch takes the
\* result another dispatch already has
AuthSettled_SharedResult(d) ==
    /\ dispatch[d].pc = "awaitAuth"
    /\ \E settled \in Settled(AuthenticationFunctionResult) :
         LET s == dispatch[d]
             others == { dispatch[o].authResult : o \in DOMAIN dispatch \ {d} } \ {Undefined}
             own == IF s.authResult # Undefined THEN s.authResult ELSE authAwait(settled)
             s1 == [(IF s.authResult # Undefined THEN s ELSE Settle(s, settled))
                       EXCEPT !.authResult = IF others # {} THEN CHOOSE r \in others : TRUE
                                             ELSE own]
         IN  dispatch' = [dispatch EXCEPT ![d] = afterAuth(s1)]
    /\ UNCHANGED <<authenticationFunc, conditions, nSetMethod>>

\* the await of auth(event, condition) returns
AuthSettled(d) ==
    /\ dispatch[d].pc = "awaitAuth"
    /\ \E settled \in Settled(AuthenticationFunctionResult) :
         LET s == dispatch[d]
             s1 == IF s.authResult # Undefined
                   THEN s
                   ELSE [Settle(s, settled) EXCEPT !.authResult = authAwait(settled)]
         IN  dispatch' = [dispatch EXCEPT ![d] = afterAuth(s1)]
    /\ UNCHANGED <<authenticationFunc, conditions, nSetMethod>>

\* the await of Validation.check(...) returns
ValidationSettled(d) ==
    /\ dispatch[d].pc = "awaitValidation"
    /\ \E verdict \in [ValidatorKeys -> BOOLEAN], throws \in BOOLEAN :
         LET s == dispatch[d]
             validationResult == ValidationCheck(s.condition.validation, verdict)
             s1 == Settle(s, [kind |-> "resolve", value |-> validationResult])
         IN  dispatch' = [dispatch EXCEPT ![d] = afterValidation(s1, validationResult, throws)]
    /\ UNCHANGED <<authenticationFunc, conditions, nSetMethod>>

\* the await of condition.customValidationFunc(...) returns or throws
CustomSettled(d) ==
    /\ dispatch[d].pc = "awaitCustom"
    /\ \E settled \in Settled(CustomValidationFunctionResult), throws \in BOOLEAN :
         dispatch' = [dispatch EXCEPT ![d] =
            customAwait(Settle(dispatch[d], settled), settled, throws)]
    /\ UNCHANGED <<authenticationFunc, conditions, nSetMethod>>

\* the promise of the bound function settles
FuncSettled(d) ==
    /\ dispatch[d].pc = "awaitFunc"
    /\ \E settled \in Settled(APIGatewayProxyResult) :
         dispatch' = [dispatch EXCEPT ![d] = funcCatch(Settle(dispatch[d], settled), settled)]
    /\ UNCHANGED <<authenticationFunc, conditions, nSetMethod>>

\* the caller has the outcome of handler(event); d stands for the next call
Return(d) ==
    /\ dispatch[d].pc \in {"resolved", "rejected"}
    /\ dispatch' = [dispatch EXCEPT ![d] = Idle]
    /\ UNCHANGED <<authenticationFunc, conditions, nSetMethod>>

\* setMethod that keeps a binding the method already has
setMethod_KeepsExisting(c, method, condition) ==
    /\ nSetMethod < MaxSetMethod
    /\ nSetMethod' = nSetMethod + 1
    /\ conditions' = [conditions EXCEPT ![c] = @ @@ (method :> condition)]
    /\ UNCHANGED <<authenticationFunc, dispatch>>

\* this.conditions[method] = condition
setMethod(c, method, condition) ==
    /\ nSetMethod < MaxSetMethod
    /\ nSetMethod' = nSetMethod + 1
    /\ conditions' = [conditions EXCEPT ![c] = (method :> condition) @@ @]
    /\ UNCHANGED <<authenticationFunc, dispatch>>

\* HttpMethodController.authenticationFunc = f
SetAuthenticationFunc(f) ==
    /\ f # authenticationFunc
    /\ authenticationFunc' = f
    /\ UNCHANGED <<conditions, nSetMethod, dispatch>>

TypeOK ==
    /\ authenticationFunc \in {Undefined, [fn |-> "authentication"]}
    /\ nSetMethod \in 0..MaxSetMethod
    /\ \A c \in Controllers :
         /\ DOMAIN conditions[c] \subseteq HttpMethod
         /\ \A m \in DOMAIN conditions[c] : conditions[c][m] \in Condition
    /\ \A d \in DOMAIN dispatch :
         dispatch[d].pc \in {"idle", "awaitAuth", "awaitValidation", "awaitCustom",
                             "awaitFunc", "resolved", "rejected"}

Init ==
    /\ authenticationFunc = Undefined
    /\ conditions = [c \in Controllers |-> <<>>]
    /\ nSetMethod = 0
    /\ dispatch = [d \in Dispatches |-> Idle]

Next ==
    \/ \E d \in DOMAIN dispatch, c \in Controllers, e \in Events : Handler(d, c, e)
    \/ \E d \in DOMAIN dispatch : AuthSettled(d)
    \/ \E d \in DOMAIN dispatch : ValidationSettled(d)
    \/ \E d \in DOMAIN dispatch : CustomSettled(d)
    \/ \E d \in DOMAIN dispatch : FuncSettled(d)
    \/ \E d \in DOMAIN dispatch : Return(d)
    \/ \E c \in Controllers, m \in HttpMethod, condition \in Condition : setMethod(c, m, condition)
    \/ \E f \in {Undefined, [fn |-> "authentication"]} : SetAuthenticationFunc(f)

Spec == Init /\ [][Next]_vars

(* ---------------------- concurrent dispatches -------------------------- *)

\* two calls of handler(event) in flight at once
ConcurrentDispatches == {"d1", "d2"}

\* a process set up before any request: the authentication function assigned
\* or not, one controller with both methods bound by its constructor
InitConcurrent ==
    /\ authenticationFunc \in {Undefined, [fn |-> "authentication"]}
    /\ \E get \in Condition, post \in Condition :
         conditions = [c \in Controllers |->
                          IF c = "c1" THEN ("GET" :> get) @@ ("POST" :> post) ELSE <<>>]
    /\ nSetMethod = 2
    /\ dispatch = [d \in ConcurrentDispatches |-> Idle]

\* the steps of the dispatches, interleaved at their awaits; the registry and
\* the authentication function stay as set up
NextConcurrent ==
    \/ \E d \in DOMAIN dispatch, c \in Controllers, e \in Events : Handler(d, c, e)
    \/ \E d \in DOMAIN dispatch : AuthSettled(d)
    \/ \E d \in DOMAIN dispatch : ValidationSettled(d)
    \/ \E d \in DOMAIN dispatch : CustomSettled(d)
    \/ \E d \in DOMAIN dispatch : FuncSettled(d)
    \/ \E d \in DOMAIN dispatch : Return(d)

SpecConcurrent == InitConcurrent /\ [][NextConcurrent]_vars

(* --------------------------- the claims -------------------------------- *)

Terminal(s) == s.pc \in {"resolved", "rejected"}

\* the injected functions a call of handler(event) has invoked so far
FnsCalled(s) == { s.calls[i].fn : i \in 1..Len(s.calls) }

\* the dispatch found a binding for its method
Bound(s) == s.pc # "idle" /\ s.event.httpMethod \in s.methods

\* the i-th call was to fn and its promise resolved
ResolvedCall(s, i, fn) ==
    /\ i \in 1..Len(s.calls)
    /\ s.calls[i].fn = fn
    /\ s.calls[i].outcome.kind = "resolve"

\* the binding has every gate: validators and a custom validator
FullyGated(s) ==
    /\ DOMAIN s.condition.validation = ValidatorKeys
    /\ s.condition.customValidationFunc # Undefined

\* C1: a dispatch whose method has no binding resolves with the canonical 400
\* response and has invoked no injected function: not the authentication
\* function, not Validation.check (hence no validator), not the custom
\* validator, not a bound function.
C1_UnboundMethodIsBadRequest ==
    \A d \in DOMAIN dispatch :
        LET s == dispatch[d] IN
        (s.pc # "idle" /\ s.event.httpMethod \notin s.methods)
            => /\ s.pc = "resolved"
               /\ s.response = badRequestResponse
               /\ s.calls = <<>>

\* an unbound method is answered while the controller has another method bound
\* and an authentication function is configured
C1_Witness ==
    \E d \in DOMAIN dispatch :
        LET s == dispatch[d] IN
        /\ s.pc = "resolved"
        /\ s.event.httpMethod \notin s.methods
        /\ s.methods # {}
        /\ s.authFunc # Undefined
        /\ s.response = badRequestResponse

\* C2: when the binding requires authentication and the authentication function
\* returns a result with error401 = true, the dispatch resolves with the
\* canonical 401 response and the authentication function is the only injected
\* function it invoked.
C2_UnauthorizedShortCircuits ==
    \A d \in DOMAIN dispatch :
        LET s == dispatch[d] IN
        (/\ Bound(s)
         /\ s.condition.isAuthentication
         /\ ResolvedCall(s, 1, "authenticationFunc")
         /\ s.calls[1].outcome.value.error401)
            => /\ s.pc = "resolved"
               /\ s.response = unauthorizeErrorResponse
               /\ Len(s.calls) = 1

\* a 401 on a binding that has validators and a custom validator
C2_Witness ==
    \E d \in DOMAIN dispatch :
        LET s == dispatch[d] IN
        /\ s.pc = "resolved"
        /\ Bound(s)
        /\ s.condition.isAuthentication
        /\ FullyGated(s)
        /\ ResolvedCall(s, 1, "authenticationFunc")
        /\ s.calls[1].outcome.value.error401
        /\ s.response = unauthorizeErrorResponse

\* C3: a dispatch called while the static authentication function is unset, on
\* a binding that requires authentication, invokes no injected function and,
\* once it ends, has resolved with the canonical 500 response; a later
\* assignment to the slot does not change that dispatch.
C3_UnsetAuthenticationIs500 ==
    \A d \in DOMAIN dispatch :
        LET s == dispatch[d] IN
        (Bound(s) /\ s.condition.isAuthentication /\ s.authFunc = Undefined)
            => /\ s.calls = <<>>
               /\ s.pc \in {"awaitAuth", "resolved"}
               /\ s.authResult = [error401 |-> FALSE, error500 |-> TRUE]
               /\ s.pc = "resolved" => s.response = internalServerErrorResponse

\* such a dispatch has ended with 500 on a fully gated binding
C3_Witness ==
    \E d \in DOMAIN dispatch :
        LET s == dispatch[d] IN
        /\ s.pc = "resolved"
        /\ Bound(s)
        /\ s.condition.isAuthentication
        /\ FullyGated(s)
        /\ s.authFunc = Undefined
        /\ s.response = internalServerErrorResponse

\* C4: on a binding with isAuthentication = false the authentication function
\* is never invoked, the result of auth is success without userInfo, and the
\* event the bound function receives has userInfo undefined.
C4_NoAuthenticationWhenNotRequired ==
    \A d \in DOMAIN dispatch :
        LET s == dispatch[d] IN
        (Bound(s) /\ ~s.condition.isAuthentication)
            => /\ "authenticationFunc" \notin FnsCalled(s)
               /\ s.authResult = [error401 |-> FALSE, error500 |-> FALSE]
               /\ \A i \in 1..Len(s.calls) :
                     s.calls[i].fn = s.condition.func => s.calls[i].arg.userInfo = Undefined

\* the bound function has been called on such a binding while an authentication
\* function was configured
C4_Witness ==
    \E d \in DOMAIN dispatch :
        LET s == dispatch[d] IN
        /\ Bound(s)
        /\ ~s.condition.isAuthentication
        /\ s.authFunc # Undefined
        /\ s.condition.func \in FnsCalled(s)

\* C5: when the binding requires authentication and the call of the configured
\* authentication function fails, by its promise rejecting or by the function
\* throwing, the result of auth is error500 (not error401), the dispatch
\* resolves with the canonical 500 response and no later injected function is
\* invoked.
C5_AuthenticationFailureIs500 ==
    \A d \in DOMAIN dispatch :
        LET s == dispatch[d] IN
        (/\ Bound(s)
         /\ s.condition.isAuthentication
         /\ Len(s.calls) >= 1
         /\ s.calls[1].fn = "authenticationFunc"
         /\ s.calls[1].outcome.kind \in {"reject", "throw"})
            => /\ s.pc = "resolved"
               /\ s.authResult = [error401 |-> FALSE, error500 |-> TRUE]
               /\ s.response = internalServerErrorResponse
               /\ Len(s.calls) = 1

\* C6: when Validation.check reports failure, the dispatch resolves with the
\* canonical 400 response and neither the custom validator nor the bound
\* function is invoked.
C6_ValidationFailureIsBadRequest ==
    \A d \in DOMAIN dispatch :
        LET s == dispatch[d] IN
        \A i \in 1..Len(s.calls) :
            (ResolvedCall(s, i, "Validation.check") /\ ~s.calls[i].outcome.value)
                => /\ s.pc = "resolved"
                   /\ s.response = badRequestResponse
                   /\ "customValidationFunc" \notin FnsCalled(s)
                   /\ s.condition.func \notin FnsCalled(s)

\* validation failed after a successful authentication, a custom validator bound
C6_Witness ==
    \E d \in DOMAIN dispatch :
        LET s == dispatch[d] IN
        /\ s.pc = "resolved"
        /\ Bound(s)
        /\ FullyGated(s)
        /\ ResolvedCall(s, 1, "authenticationFunc")
        /\ ResolvedCall(s, 2, "Validation.check")
        /\ ~s.calls[2].outcome.value
        /\ s.response = badRequestResponse

\* C7: when the custom validator returns a result with errorResponse present,
\* the dispatch resolves with exactly that response, whatever validationResult
\* and the response's status code are, and the bound function is not invoked.
C7_OverrideResponseWins ==
    \A d \in DOMAIN dispatch :
        LET s == dispatch[d] IN
        \A i \in 1..Len(s.calls) :
            (/\ ResolvedCall(s, i, "customValidationFunc")
             /\ "errorResponse" \in DOMAIN s.calls[i].outcome.value)
                => /\ s.pc = "resolved"
                   /\ s.response = s.calls[i].outcome.value.errorResponse
                   /\ s.condition.func \notin FnsCalled(s)

\* a passing custom validation with a 200 override
C7_Witness ==
    \E d \in DOMAIN dispatch :
        LET s == dispatch[d] IN
        \E i \in 1..Len(s.calls) :
            /\ ResolvedCall(s, i, "customValidationFunc")
            /\ s.calls[i].outcome.value =
                 [validationResult |-> TRUE,
                  errorResponse |-> [statusCode |-> 200, body |-> "ok"]]
            /\ s.pc = "resolved"
            /\ s.response = [statusCode |-> 200, body |-> "ok"]

\* C8: when the custom validator returns validationResult = false and no
\* errorResponse, the dispatch resolves with the canonical 400 response and the
\* bound function is not invoked.
C8_CustomValidationFailureIsBadRequest ==
    \A d \in DOMAIN dispatch :
        LET s == dispatch[d] IN
        \A i \in 1..Len(s.calls) :
            (/\ ResolvedCall(s, i, "customValidationFunc")
             /\ s.calls[i].outcome.value = [validationResult |-> FALSE])
                => /\ s.pc = "resolved"
                   /\ s.response = badRequestResponse
                   /\ s.condition.func \notin FnsCalled(s)

\* the custom validator refused after authentication and validation passed
C8_Witness ==
    \E d \in DOMAIN dispatch :
        LET s == dispatch[d] IN
        /\ s.pc = "resolved"
        /\ ResolvedCall(s, 1, "authenticationFunc")
        /\ ResolvedCall(s, 2, "Validation.check")
        /\ ResolvedCall(s, 3, "customValidationFunc")
        /\ s.calls[3].outcome.value = [validationResult |-> FALSE]
        /\ s.response = badRequestResponse

\* C9: when the promise of the custom validator rejects, the dispatch resolves
\* with the canonical 500 response.
C9_CustomValidatorRejectionIs500 ==
    \A d \in DOMAIN dispatch :
        LET s == dispatch[d] IN
        \A i \in 1..Len(s.calls) :
            (s.calls[i].fn = "customValidationFunc" /\ s.calls[i].outcome.kind = "reject")
                => /\ s.pc = "resolved"
                   /\ s.response = internalServerErrorResponse

Responses ==
    {badRequestResponse, unauthorizeErrorResponse, internalServerErrorResponse}
        \cup APIGatewayProxyResult

\* C11: every dispatch that ends has produced a response, one of the canonical
\* 400, 401 and 500 responses, a custom validator's override or the bound
\* function's response; it never ends with a raw failure.
C11_AlwaysAResponse ==
    \A d \in DOMAIN dispatch :
        LET s == dispatch[d] IN
        Terminal(s) => s.pc = "resolved" /\ s.response \in Responses

\* the injected functions a binding makes applicable, in the order of the pipeline
Stages(condition) ==
    (IF condition.isAuthentication THEN <<"authenticationFunc">> ELSE <<>>)
        \o <<"Validation.check">>
        \o (IF condition.customValidationFunc # Undefined
            THEN <<"customValidationFunc">> ELSE <<>>)
        \o <<condition.func>>

\* the stage of this call completed and let the pipeline go on
Passed(call) ==
    /\ call.outcome.kind = "resolve"
    /\ call.fn = "authenticationFunc"
          => ~call.outcome.value.error401 /\ ~call.outcome.value.error500
    /\ call.fn = "Validation.check" => call.outcome.value
    /\ call.fn = "customValidationFunc"
          => /\ "errorResponse" \notin DOMAIN call.outcome.value
             /\ call.outcome.value.validationResult

\* C12: the injected functions a dispatch has invoked are an initial part of
\* the list authentication function, Validation.check, custom validator,
\* bound function (those its binding makes applicable), so each is invoked at
\* most once and in that order, and every call but the last has completed and
\* passed.
C12_StagesInOrderOnce ==
    \A d \in DOMAIN dispatch :
        LET s == dispatch[d] IN
        /\ ~Bound(s) => s.calls = <<>>
        /\ Bound(s) =>
             /\ Len(s.calls) <= Len(Stages(s.condition))
             /\ \A i \in 1..Len(s.calls) :
                   /\ s.calls[i].fn = Stages(s.condition)[i]
                   /\ i < Len(s.calls) => Passed(s.calls[i])

\* all four stages were invoked in one dispatch
C12_Witness ==
    \E d \in DOMAIN dispatch :
        LET s == dispatch[d] IN
        /\ s.pc = "resolved"
        /\ Bound(s)
        /\ s.condition.isAuthentication
        /\ FullyGated(s)
        /\ Len(s.calls) = 4
        /\ s.calls[4].outcome.kind = "resolve"

\* authentication succeeded with a userInfo and every later gate passed
GatesPassedWithUser(s) ==
    /\ Bound(s)
    /\ s.condition.isAuthentication
    /\ ResolvedCall(s, 1, "authenticationFunc")
    /\ Passed(s.calls[1])
    /\ "userInfo" \in DOMAIN s.calls[1].outcome.value
    /\ ResolvedCall(s, 2, "Validation.check")
    /\ Passed(s.calls[2])
    /\ s.condition.customValidationFunc # Undefined
          => ResolvedCall(s, 3, "customValidationFunc") /\ Passed(s.calls[3])

\* C13: when authentication succeeds with userInfo c and validation and custom
\* validation pass, the bound function is invoked with headers, pathParameters,
\* body and queryParameters equal to the request's fields and userInfo = c, and
\* the dispatch resolves with the response the bound function returns.
C13_HandlerGetsMergedEvent ==
    \A d \in DOMAIN dispatch :
        LET s == dispatch[d]
            n == Len(s.calls)
        IN  GatesPassedWithUser(s) =>
              /\ s.calls[n].fn = s.condition.func
              /\ s.calls[n].arg =
                   [headers |-> s.event.headers,
                    pathParameters |-> s.event.pathParameters,
                    body |-> s.event.body,
                    queryParameters |-> s.event.queryStringParameters,
                    userInfo |-> s.calls[1].outcome.value.userInfo]
              /\ s.calls[n].outcome.kind = "resolve"
                    => s.pc = "resolved" /\ s.response = s.calls[n].outcome.value

\* GET bound with authentication and no validators; the bound function
\* returned {200, "ok"} and had received the authenticated user
C13_Witness ==
    \E d \in DOMAIN dispatch :
        LET s == dispatch[d] IN
        /\ GatesPassedWithUser(s)
        /\ s.event.httpMethod = "GET"
        /\ s.condition.validation = <<>>
        /\ s.condition.customValidationFunc = Undefined
        /\ Len(s.calls) = 3
        /\ s.calls[3].arg.userInfo = [userId |-> "u1"]
        /\ s.pc = "resolved"
        /\ s.response = [statusCode |-> 200, body |-> "ok"]

\* the binding of method m on controller c in registry conds, if any
BindingOf(conds, c, m) == IF m \in DOMAIN conds[c] THEN conds[c][m] ELSE Undefined

\* C14: setMethod(method, binding) makes binding the binding of that method,
\* whatever the method was bound to before, and leaves every other method of
\* the controller and every binding of every other controller as it was;
\* nothing else changes a binding; and a dispatch uses the binding its method
\* has in the registry when handler(event) is called.
C14_SetMethodOverwritesOnlyItsMethod ==
    [][ /\ \A c \in Controllers, m \in HttpMethod, b \in Condition :
              setMethod(c, m, b) =>
                 /\ BindingOf(conditions', c, m) = b
                 /\ \A c2 \in Controllers, m2 \in HttpMethod :
                       <<c2, m2>> # <<c, m>>
                          => BindingOf(conditions', c2, m2) = BindingOf(conditions, c2, m2)
        /\ nSetMethod' = nSetMethod => conditions' = conditions
        /\ \A d \in DOMAIN dispatch :
              (dispatch[d].pc = "idle" /\ dispatch'[d].pc # "idle")
                 => dispatch'[d].condition =
                      BindingOf(conditions, dispatch'[d].controller,
                                dispatch'[d].event.httpMethod)
      ]_vars

\* a method was bound again, to another binding, while a dispatch that had
\* started under the earlier binding was still running
C14_Witness ==
    \E d \in DOMAIN dispatch :
        LET s == dispatch[d] IN
        /\ Bound(s)
        /\ nSetMethod = 2
        /\ \A c \in Controllers : DOMAIN conditions[c] \subseteq {s.event.httpMethod}
        /\ conditions[s.controller][s.event.httpMethod] # s.condition

\* C17, as claimed: every result auth hands to handler has at most one of
\* error401 and error500 true, and has a userInfo only when neither flag is
\* set and the authentication function ran.
C17_AuthOutcomeWellFormed ==
    \A d \in DOMAIN dispatch :
        LET s == dispatch[d] IN
        s.authResult # Undefined =>
            /\ ~(s.authResult.error401 /\ s.authResult.error500)
            /\ "userInfo" \in DOMAIN s.authResult
                  => /\ ~s.authResult.error401
                     /\ ~s.authResult.error500
                     /\ "authenticationFunc" \in FnsCalled(s)

\* C17, amended: a result auth builds itself has no userInfo and at most one
\* flag: no flag when authentication is not required, error500 alone when no
\* function is configured or its promise rejected.  A result the
\* authentication function returned is handed to handler unchanged.
C17_AuthOutcomeBuiltOrPassedOn ==
    \A d \in DOMAIN dispatch :
        LET s == dispatch[d] IN
        (Bound(s) /\ s.authResult # Undefined) =>
            IF ~s.condition.isAuthentication
            THEN s.authResult = [error401 |-> FALSE, error500 |-> FALSE]
            ELSE IF ResolvedCall(s, 1, "authenticationFunc")
            THEN s.authResult = s.calls[1].outcome.value
            ELSE s.authResult = [error401 |-> FALSE, error500 |-> TRUE]

\* the authentication function returned both flags and a userInfo, and auth
\* handed that on
C17_Witness ==
    \E d \in DOMAIN dispatch :
        LET s == dispatch[d] IN
        /\ ResolvedCall(s, 1, "authenticationFunc")
        /\ s.authResult =
             [userInfo |-> [userId |-> "u1"], error401 |-> TRUE, error500 |-> TRUE]

\* C18: a step of a dispatch leaves the registry of every controller and the
\* static authentication function as they were, and the event of a running
\* dispatch is the event handler was called with, up to its end.
C18_DispatchChangesNothingElse ==
    [][ /\ dispatch' # dispatch
            => conditions' = conditions /\ authenticationFunc' = authenticationFunc
        /\ \A d \in DOMAIN dispatch :
              (dispatch[d].pc # "idle" /\ dispatch'[d].pc # "idle")
                 => /\ dispatch'[d].event = dispatch[d].event
                    /\ dispatch'[d].controller = dispatch[d].controller
      ]_vars

\* a dispatch went through every stage with two methods bound and the
\* authentication function set
C18_Witness ==
    \E d \in DOMAIN dispatch :
        LET s == dispatch[d] IN
        /\ s.pc = "resolved"
        /\ Bound(s)
        /\ Len(s.calls) = 4
        /\ authenticationFunc # Undefined
        /\ nSetMethod = 2
        /\ s.event.queryStringParameters = "null"

\* C19: the custom validator is invoked only when the binding has one, only
\* after auth gave no error and Validation.check returned true, and with
\* exactly the request's body, headers, pathParameters and queryParameters:
\* no userInfo, even when authentication produced one.
C19_CustomValidatorGetsRawFields ==
    \A d \in DOMAIN dispatch :
        LET s == dispatch[d] IN
        \A i \in 1..Len(s.calls) :
            s.calls[i].fn = "customValidationFunc" =>
                /\ Bound(s)
                /\ s.condition.customValidationFunc # Undefined
                /\ ~s.authResult.error401 /\ ~s.authResult.error500
                /\ i > 1
                /\ s.calls[i - 1].fn = "Validation.check"
                /\ Passed(s.calls[i - 1])
                /\ s.calls[i].arg =
                     [body |-> s.event.body, headers |-> s.event.headers,
                      pathParameters |-> s.event.pathParameters,
                      queryParameters |-> s.event.queryStringParameters]

\* the custom validator was called after an authentication that gave a userInfo
C19_Witness ==
    \E d \in DOMAIN dispatch :
        LET s == dispatch[d] IN
        /\ Len(s.calls) >= 3
        /\ s.calls[3].fn = "customValidationFunc"
        /\ "userInfo" \in DOMAIN s.authResult
        /\ DOMAIN s.calls[3].arg = {"body", "headers", "pathParameters", "queryParameters"}

\* C20: a result of auth with error401 true gives the canonical 401 response,
\* also when error500 is true as well; one with error500 alone gives the
\* canonical 500 response; and with either flag Validation.check is never
\* called, so the dispatch cannot end with the 400 of a validation failure.
C20_AuthenticationErrorPriority ==
    \A d \in DOMAIN dispatch :
        LET s == dispatch[d] IN
        (/\ Bound(s)
         /\ s.authResult # Undefined
         /\ s.authResult.error401 \/ s.authResult.error500)
            => /\ "Validation.check" \notin FnsCalled(s)
               /\ s.pc \in {"awaitAuth", "resolved"}
               /\ s.pc = "resolved"
                     => s.response = IF s.authResult.error401
                                     THEN unauthorizeErrorResponse
                                     ELSE internalServerErrorResponse

\* the authentication function returned both flags on a binding with
\* validators and the answer was 401
C20_Witness ==
    \E d \in DOMAIN dispatch :
        LET s == dispatch[d] IN
        /\ s.pc = "resolved"
        /\ Bound(s)
        /\ FullyGated(s)
        /\ ResolvedCall(s, 1, "authenticationFunc")
        /\ s.calls[1].outcome.value.error401
        /\ s.calls[1].outcome.value.error500
        /\ s.response = unauthorizeErrorResponse

\* how the call of fn in this dispatch ended; Pending when fn was not called
OutcomeOf(s, fn) ==
    IF fn \in FnsCalled(s)
    THEN (CHOOSE call \in { s.calls[i] : i \in 1..Len(s.calls) } : call.fn = fn).outcome
    ELSE Pending

\* what handler(event) gives when it runs alone on binding b with the static
\* authentication function f and the injected functions ending as they did
\* for s: a response, Undefined for a raw failure, Pending while a function
\* it waits for has not ended
Alone(s, b, f) ==
    LET a == OutcomeOf(s, "authenticationFunc")
        v == OutcomeOf(s, "Validation.check")
        cv == OutcomeOf(s, "customValidationFunc")
        h == IF b = Undefined THEN Pending ELSE OutcomeOf(s, b.func)
        bound ==
            IF h.kind = "pending" THEN Pending
            ELSE IF h.kind = "throw" THEN Undefined
            ELSE IF h.kind = "reject" THEN internalServerErrorResponse
            ELSE h.value
        custom ==
            IF b.customValidationFunc = Undefined THEN bound
            ELSE IF cv.kind = "pending" THEN Pending
            ELSE IF cv.kind \in {"throw", "reject"} THEN Undefined
            ELSE IF "errorResponse" \in DOMAIN cv.value THEN cv.value.errorResponse
            ELSE IF ~cv.value.validationResult THEN badRequestResponse
            ELSE bound
        validation ==
            IF v.kind = "pending" THEN Pending
            ELSE IF ~v.value THEN badRequestResponse
            ELSE custom
    IN  IF b = Undefined THEN badRequestResponse
        ELSE IF ~b.isAuthentication THEN validation
        ELSE IF f = Undefined THEN internalServerErrorResponse
        ELSE IF a.kind = "pending" THEN Pending
        ELSE IF a.kind = "throw" THEN Undefined
        ELSE IF a.kind = "reject" THEN internalServerErrorResponse
        ELSE IF a.value.error401 THEN unauthorizeErrorResponse
        ELSE IF a.value.error500 THEN internalServerErrorResponse
        ELSE validation

\* the userInfo the authentication function of this dispatch returned, if any
OwnUserInfo(s) ==
    LET a == OutcomeOf(s, "authenticationFunc") IN
    IF a.kind = "resolve" /\ "userInfo" \in DOMAIN a.value
    THEN a.value.userInfo ELSE Undefined

\* C15: with the registry and the authentication function unchanged, each of
\* two dispatches interleaved at their awaits ends as it would alone, given
\* its own request and how its own injected functions ended; and every
\* argument it passes to an injected function is made of its own request's
\* fields and of the userInfo its own authentication returned.
C15_ConcurrentDispatchesIndependent ==
    \A d \in DOMAIN dispatch :
        LET s == dispatch[d]
            alone == Alone(s, BindingOf(conditions, s.controller, s.event.httpMethod),
                           authenticationFunc)
        IN  /\ Terminal(s) => alone = IF s.pc = "resolved" THEN s.response ELSE Undefined
            /\ \A i \in 1..Len(s.calls) :
                 LET arg == s.calls[i].arg IN
                 IF s.calls[i].fn = "authenticationFunc" THEN arg = s.event
                 ELSE /\ arg.headers = s.event.headers
                      /\ arg.pathParameters = s.event.pathParameters
                      /\ arg.body = s.event.body
                      /\ arg.queryParameters = s.event.queryStringParameters
                      /\ "userInfo" \in DOMAIN arg => arg.userInfo = OwnUserInfo(s)

\* two dispatches of different requests are both between two awaits, one with
\* an authenticated user, the other with an authentication that gave none
C15_Witness ==
    \E d1 \in DOMAIN dispatch, d2 \in DOMAIN dispatch :
        /\ dispatch[d1].pc = "awaitFunc"
        /\ dispatch[d2].pc = "awaitFunc"
        /\ dispatch[d1].event # dispatch[d2].event
        /\ "authenticationFunc" \in FnsCalled(dispatch[d1])
        /\ "authenticationFunc" \in FnsCalled(dispatch[d2])
        /\ OwnUserInfo(dispatch[d1]) = [userId |-> "u1"]
        /\ OwnUserInfo(dispatch[d2]) = Undefined

\* the injected functions ended the same way in both dispatches
SameOutcomes(s1, s2) ==
    \A fn \in FnsCalled(s1) \cap FnsCalled(s2) : OutcomeOf(s1, fn) = OutcomeOf(s2, fn)

\* C16: two dispatches of the same request on the same controller, with the
\* registry and the authentication function unchanged and the injected
\* functions ending the same way in both, end the same way: both reject or
\* both resolve, with the same response, after the same stages.
C16_SameRequestSameOutcome ==
    \A d1 \in DOMAIN dispatch, d2 \in DOMAIN dispatch :
        LET s1 == dispatch[d1]
            s2 == dispatch[d2]
        IN  (/\ Terminal(s1) /\ Terminal(s2)
             /\ s1.controller = s2.controller
             /\ s1.event = s2.event
             /\ SameOutcomes(s1, s2))
                => /\ s1.pc = s2.pc
                   /\ s1.response = s2.response
                   /\ FnsCalled(s1) = FnsCalled(s2)

\* the same request was dispatched twice through every stage
C16_Witness ==
    \E d1 \in DOMAIN dispatch, d2 \in DOMAIN dispatch :
        LET s1 == dispatch[d1]
            s2 == dispatch[d2]
        IN  /\ d1 # d2
            /\ s1.pc = "resolved" /\ s2.pc = "resolved"
            /\ s1.controller = s2.controller
            /\ s1.event = s2.event
            /\ Len(s1.calls) = 4 /\ Len(s2.calls) = 4
            /\ SameOutcomes(s1, s2)
            /\ s1.response = s2.response

====
